---- MODULE Spec2Model ----
(***************************************************************************)
(* State-machine model of the FYTA integration driver (src/driver.py).     *)
(*                                                                         *)
(* The driver keeps a dictionary of plant sensor entities (_plant_sensors) *)
(* reconciled with the FYTA web API.  A handler runs from one remote call  *)
(* to the next in one step; the answer of the remote service is the input  *)
(* of the step.  In Spec the handlers run one at a time; in SpecPure whole *)
(* reconciliation passes run against remote data that does not change.     *)
(* Python objects are shared between _plant_sensors and the registries of  *)
(* the host library, so every entity id carries the object held by         *)
(* _plant_sensors, the object held by available_entities and whether the   *)
(* two are the same object.                                                *)
(***************************************************************************)
EXTENDS Integers, Sequences, FiniteSets, TLC

VARIABLES
    fyta_config,      \* _fyta_config: NoConfig or the FytaConfig record
    config_file,      \* config.json: NoConfig or the record written by save_config
    plant_sensors,    \* _plant_sensors: entity id -> entity object (its fields)
    available,        \* api.available_entities: entity id -> entity object
    aliased,          \* ids whose _plant_sensors object IS the available_entities object
    configured,       \* ids held by api.configured_entities (always the available object)
    entities_file,    \* entities.json: entity id -> stored entity
    setup_step,       \* _setup_step
    device_state,     \* state handed to api.set_device_state
    refresh_pending,  \* update_entities_from_api was scheduled by main and has not run
    issued,           \* the access token the remote service issued last
    rejected,         \* the tokens the remote answered 401 to and has not reissued since
    run,              \* the handler in progress: where it stands and its plant list
    task,             \* the refresh task main created, in progress beside a handler
    setting,          \* the surroundings of this behaviour: what the remote service and the host do
    last,             \* record of the step taken last: its inputs and what it did
    arg,              \* the inputs of the behaviour: a status code, remote data, a script
    out               \* what the function applied to arg has computed

vars == << fyta_config, config_file, plant_sensors, available, aliased, configured,
           entities_file, setup_step, device_state, refresh_pending, issued, rejected,
           run, task, setting, last, arg, out >>

sysvars == << fyta_config, config_file, plant_sensors, available, aliased, configured,
              entities_file, setup_step, device_state, refresh_pending, issued, rejected,
              run, task, setting, last >>

-----------------------------------------------------------------------------
(* Bounds of the model *)

\* longest plant list the remote service returns
MaxPlants == 2
\* most 401 answers, each followed by a successful login, one plant-list fetch meets
MaxListRetries == 2
\* access tokens are numbered 1..NumTokens, reissued cyclically
NumTokens == 2

(* Program constants *)
MAX_STARTUP_RETRIES == 5

-----------------------------------------------------------------------------
(* JSON values received from the remote service *)

\* an optional status code: << >> is an absent (None) status, <<n>> the integer n
NoStatus == << >>
Some(n) == << n >>

\* values.current: absent, a JSON string, or a JSON number (text is str(number))
NoCurrent == [has |-> FALSE, isStr |-> FALSE, text |-> ""]
StrCurrent(s) == [has |-> TRUE, isStr |-> TRUE, text |-> s]
NumCurrent(s) == [has |-> TRUE, isStr |-> FALSE, text |-> s]

\* measurements.<kind>: absent, a dict (record), or any non-dict JSON value (scalar)
NoMeasurement == [kind |-> "absent", status |-> NoStatus, current |-> NoCurrent]
ScalarMeasurement == [kind |-> "scalar", status |-> NoStatus, current |-> NoCurrent]
Measurement(st, cur) == [kind |-> "record", status |-> st, current |-> cur]

\* the "plant" object of GET /user-plant/{id}
Details(hasMeas, temp, moist, batt) ==
    [measurements |-> hasMeas, temperature |-> temp, moisture |-> moist,
     is_battery_low |-> batt]

\* str(x) of a current value
str_current(cur) == cur.text

-----------------------------------------------------------------------------
(* get_measurement_status_text, driver.py 833-848 *)

status_text_swapped(status_code) ==
    IF status_code = Some(0) THEN "No Data"
    ELSE IF status_code = Some(1) THEN "Too Low"
    ELSE IF status_code = Some(2) THEN "Low"
    ELSE IF status_code = Some(3) THEN "Perfect"
    ELSE IF status_code = Some(4) THEN "Too High"
    ELSE IF status_code = Some(5) THEN "High"
    ELSE "Unknown"

get_measurement_status_text(status_code) ==
    IF status_code = Some(0) THEN "No Data"
    ELSE IF status_code = Some(1) THEN "Too Low"
    ELSE IF status_code = Some(2) THEN "Low"
    ELSE IF status_code = Some(3) THEN "Perfect"
    ELSE IF status_code = Some(4) THEN "High"
    ELSE IF status_code = Some(5) THEN "Too High"
    ELSE "Unknown"

-----------------------------------------------------------------------------
(* Entities *)

\* the "status" attribute is absent until a reconciliation sets it
NoAttr == "(absent)"
BatterySuffix == " (Battery Low)"

TempId(plant_id) == "fyta-plant-" \o plant_id
MoistId(plant_id) == "fyta-moisture-" \o plant_id

\* a temperature sensor whose id is built with the prefix of the moisture sensors
PlantTemperatureSensor_moisture_id(plant_id) ==
    [id |-> MoistId(plant_id), kind |-> "temperature", plant_id |-> plant_id,
     value |-> "0", status |-> NoAttr, state |-> "UNKNOWN"]

\* PlantTemperatureSensor.__init__, driver.py 71-109
PlantTemperatureSensor(plant_id) ==
    [id |-> TempId(plant_id), kind |-> "temperature", plant_id |-> plant_id,
     value |-> "0", status |-> NoAttr, state |-> "UNKNOWN"]

\* PlantMoistureSensor.__init__, driver.py 115-152
PlantMoistureSensor(plant_id) ==
    [id |-> MoistId(plant_id), kind |-> "moisture", plant_id |-> plant_id,
     value |-> "Unknown", status |-> NoAttr, state |-> "UNKNOWN"]

-----------------------------------------------------------------------------
(* Dictionaries *)

\* d[k] = v, adding the key when it is new
Put(d, k, v) == [x \in DOMAIN d \cup {k} |-> IF x = k THEN v ELSE d[x]]

EmptyDict == [x \in {} |-> 0]

-----------------------------------------------------------------------------
(* Session and login *)

NoConfig == [present |-> FALSE, access_token |-> 0, refresh_token |-> 0, expires_in |-> 0]
NoToken == 0

\* the token the remote issues after token i, when it hands out `tokens` tokens in turn
NextToken(i, tokens) == (i % tokens) + 1

\* What POST /auth/login answers: "error" (authenticate_fyta raises), "noaccess"
\* (a body without access_token), "partial" (access_token only), "full".
LoginAnswers == {"error", "noaccess", "partial", "full"}
LoginGrants(answer) == answer \in {"partial", "full"}

\* auth_response.get(key) for the three token fields, driver.py 263-265, 720-722
AuthGet(answer, token) ==
    [present |-> TRUE, access_token |-> token,
     refresh_token |-> IF answer = "full" THEN token ELSE NoToken,
     expires_in |-> IF answer = "full" THEN 1 ELSE 0]

\* save_config, driver.py 284-302: the file holds the fields of the config
save_config(config) == config

-----------------------------------------------------------------------------
(* get_user_plants, driver.py 391-438.
   g is the running state of the call: the config, config.json, the token the remote
   issued last, the requests sent so far and the counters of this invocation.  The
   remote answers the list call with 401 and grants the following login `retries`
   times; `final` is its answer to the call after that:
     "ok"            200 with the plant list `plants`
     "error"         timeout, connection error, other HTTP status, malformed body
     "unauth_error"  401, and the login that follows raises
     "unauth_noaccess" 401, and the login answers without access_token
     "unauth_partial"  401, and the login answers with access_token only           *)

ListFinals == {"ok", "error", "unauth_error", "unauth_noaccess", "unauth_partial"}

\* one authorized request: the token it carries, whether that token had already met
\* a 401 when the request was sent, and whether this request meets a 401
Request(g, what, unauthorized) ==
    [what |-> what, token |-> g.config.access_token,
     stale |-> g.config.access_token \in g.rejected, rejected |-> unauthorized]

send(g, what, unauthorized) ==
    [g EXCEPT !.sent = Append(@, Request(g, what, unauthorized)),
              !.rejected = IF unauthorized THEN @ \cup {g.config.access_token} ELSE @]

\* the remote issues the next token
issue(g) ==
    LET token == NextToken(g.issued, g.tokens)
    IN [g EXCEPT !.issued = token, !.rejected = @ \ {token}, !.logins = @ + 1]

RECURSIVE get_user_plants(_, _, _, _)
get_user_plants(g, retries, final, plants) ==
    IF ~g.config.present \/ g.config.access_token = NoToken
    THEN [g EXCEPT !.plants = << >>]
    ELSE
      LET unauthorized ==
              retries > 0 \/ final \in {"unauth_error", "unauth_noaccess", "unauth_partial"}
          g1 == [send(g, "list", unauthorized) EXCEPT !.list_calls = @ + 1]
      IN
      IF retries > 0
      THEN \* 401, authenticate_fyta succeeds with all three fields: 426-432
           LET g2 == issue(g1)
               config == [g2.config EXCEPT !.access_token = g2.issued,
                                           !.refresh_token = g2.issued,
                                           !.expires_in = 1]
               g3 == [g2 EXCEPT !.config = config, !.file = save_config(config)]
           IN get_user_plants(g3, retries - 1, final, plants)
      ELSE IF final = "ok" THEN [g1 EXCEPT !.plants = plants]
      ELSE IF final = "error" THEN [g1 EXCEPT !.plants = << >>]
      ELSE IF final = "unauth_error" THEN [g1 EXCEPT !.plants = << >>, !.logins = @ + 1]
      ELSE IF final = "unauth_noaccess" THEN [g1 EXCEPT !.plants = << >>, !.logins = @ + 1]
      ELSE \* "unauth_partial": 427 assigns access_token, 428 raises KeyError, caught at 433
           LET g2 == issue(g1)
           IN [g2 EXCEPT !.plants = << >>, !.config = [@ EXCEPT !.access_token = g2.issued]]

\* a details call that sends its request whatever the session holds
get_plant_details_unguarded(g, answer) == send(g, "details", answer.kind = "unauth")

\* get_plant_details, driver.py 441-468: the answer is "ok" with a body, or a failure
\* ("error": timeout, HTTP error, empty body; "unauth": 401), which both give {}.
get_plant_details(g, answer) ==
    IF ~g.config.present \/ g.config.access_token = NoToken
    THEN g
    ELSE send(g, "details", answer.kind = "unauth")

-----------------------------------------------------------------------------
(* Deriving entity values from the details of a plant *)

\* driver.py 589-591 and 780-782: the battery warning is appended to the value
battery_low_value_twice(current_value) == current_value \o BatterySuffix \o BatterySuffix

battery_low_value(current_value) == current_value \o BatterySuffix

\* create_plant_sensors, driver.py 538-564, on a sensor object just constructed
create_temperature(sensor, details) ==
    IF details.measurements /\ details.temperature.kind = "record"
    THEN LET temp_status == details.temperature.status
             temp_values == details.temperature.current
             value == IF temp_status = Some(0) THEN "0"
                      ELSE IF temp_values.has THEN str_current(temp_values)
                      ELSE sensor.value
         IN [sensor EXCEPT !.value = value,
                           !.status = get_measurement_status_text(temp_status)]
    ELSE sensor

\* create_plant_sensors, driver.py 567-595, on a sensor object just constructed
create_moisture(sensor, details) ==
    IF details.measurements /\ details.moisture.kind = "record"
    THEN LET moisture_status_code == details.moisture.status
             moisture_values == details.moisture.current
             base == IF moisture_status_code = Some(0) THEN "No Data"
                     ELSE IF moisture_status_code = Some(1)
                             /\ moisture_values = StrCurrent("0") THEN "To Low"
                     ELSE get_measurement_status_text(moisture_status_code)
         IN [sensor EXCEPT !.value = IF details.is_battery_low
                                     THEN battery_low_value(base) ELSE base]
    ELSE sensor

\* on_r2_connect_cmd, driver.py 746-754, on the sensor object of _plant_sensors
connect_temperature(sensor, details) ==
    IF details.temperature.current.has
    THEN [sensor EXCEPT !.value = str_current(details.temperature.current),
                        !.status = get_measurement_status_text(details.temperature.status)]
    ELSE sensor

\* on_r2_connect_cmd, driver.py 771-782, on the sensor object of _plant_sensors
connect_moisture(sensor, details) ==
    LET moisture_status_text == get_measurement_status_text(details.moisture.status)
    IN [sensor EXCEPT !.value = IF details.is_battery_low
                                THEN battery_low_value(moisture_status_text)
                                ELSE moisture_status_text]

-----------------------------------------------------------------------------
(* The plant list and the per-plant answers *)

\* An element of "plants": a JSON object, or anything else ("bad": plant.get raises)
Plant(has_id, id, has_sensor) ==
    [kind |-> "plant", has_id |-> has_id, id |-> id, has_sensor |-> has_sensor]
BadPlant == [kind |-> "bad", has_id |-> FALSE, id |-> "", has_sensor |-> FALSE]

\* str(plant.get("id")), driver.py 732
str_id(plant) == IF plant.has_id THEN plant.id ELSE "None"

NoDetails == Details(FALSE, NoMeasurement, NoMeasurement, FALSE)
Answer(kind, body) == [kind |-> kind, body |-> body]
ErrorAnswer == Answer("error", NoDetails)
UnauthAnswer == Answer("unauth", NoDetails)

\* what the remote answers for the details of plant_id; it knows no plant "None"
AnswerFor(det, plant_id) == IF plant_id \in DOMAIN det THEN det[plant_id] ELSE ErrorAnswer

-----------------------------------------------------------------------------
(* create_plant_sensors, driver.py 471-660 *)

\* driver.py 598-603: the new object replaces the one in _plant_sensors;
\* available_entities.add keeps the object it already holds under that id
store_sensor(g, sensor) ==
    [g EXCEPT !.sensors = Put(@, sensor.id, sensor),
              !.avail = IF sensor.id \in DOMAIN @ THEN @ ELSE Put(@, sensor.id, sensor),
              !.alias = IF sensor.id \in DOMAIN g.avail
                        THEN @ \ {sensor.id} ELSE @ \cup {sensor.id}]

\* one iteration of the loop, driver.py 483-621
create_plant(g, plant, det) ==
    IF plant.kind = "bad" THEN g                       \* plant.get raises; caught at 619
    ELSE IF ~plant.has_sensor THEN g
    ELSE IF ~plant.has_id THEN g
    ELSE LET answer == AnswerFor(det, plant.id)
             g1 == get_plant_details(g, answer)
             sent == g.config.present /\ g.config.access_token # NoToken
         IN IF ~sent \/ answer.kind # "ok"
            THEN g1
            ELSE LET temp_sensor ==
                         create_temperature(PlantTemperatureSensor(plant.id), answer.body)
                     moisture_sensor ==
                         create_moisture(PlantMoistureSensor(plant.id), answer.body)
                 IN store_sensor(store_sensor(g1, temp_sensor), moisture_sensor)

RECURSIVE create_loop(_, _, _)
create_loop(g, plants, det) ==
    IF plants = << >> THEN g
    ELSE create_loop(create_plant(g, Head(plants), det), Tail(plants), det)

\* driver.py 639-660 and 799-819: entities.json holds every object of _plant_sensors
store_entities(g) == [g EXCEPT !.entities_file = g.sensors]

\* driver.py 476: the reset of _plant_sensors is commented out
create_reset(g) == [g EXCEPT !.sensors = EmptyDict]

create_start(g) == g

create_plant_sensors(g, retries, final, plants, det) ==
    LET g1 == get_user_plants(create_start(g), retries, final, plants)
    IN store_entities(create_loop([g1 EXCEPT !.pass = "create"], g1.plants, det))

-----------------------------------------------------------------------------
(* The update loop of on_r2_connect_cmd, driver.py 729-819 *)

\* assignment to attributes of the object _plant_sensors holds under id
write_sensor(g, id, sensor) ==
    [g EXCEPT !.sensors = Put(@, id, sensor),
              !.avail = IF id \in g.alias THEN Put(@, id, sensor) ELSE @]

\* api.configured_entities.update_attributes(id, {STATE: ON, VALUE: value}): the
\* configured object is the one available_entities holds
update_attributes(g, id, value) ==
    LET entity == [g.avail[id] EXCEPT !.state = "ON", !.value = value]
    IN [g EXCEPT !.avail = Put(@, id, entity),
                 !.sensors = IF id \in g.alias THEN Put(@, id, entity) ELSE @]

\* driver.py 744-766; raises when measurements.temperature is not a dict
connect_plant_temperature(g, plant_id, details) ==
    LET temp_entity_id == TempId(plant_id)
    IN IF temp_entity_id \in DOMAIN g.avail /\ temp_entity_id \in DOMAIN g.sensors
          /\ details.temperature.kind # "absent"
       THEN IF details.temperature.kind = "scalar"
            THEN [g EXCEPT !.raised = TRUE]
            ELSE IF details.temperature.current.has
            THEN LET sensor == connect_temperature(g.sensors[temp_entity_id], details)
                     g1 == write_sensor(g, temp_entity_id, sensor)
                 IN IF temp_entity_id \in g.conf
                    THEN update_attributes(g1, temp_entity_id, sensor.value)
                    ELSE g1
            ELSE g
       ELSE g

\* driver.py 768-794; raises when measurements.moisture is not a dict
connect_plant_moisture(g, plant_id, details) ==
    LET moisture_entity_id == MoistId(plant_id)
    IN IF moisture_entity_id \in DOMAIN g.avail /\ moisture_entity_id \in DOMAIN g.sensors
          /\ details.moisture.kind # "absent"
       THEN IF details.moisture.kind = "scalar"
            THEN [g EXCEPT !.raised = TRUE]
            ELSE LET sensor == connect_moisture(g.sensors[moisture_entity_id], details)
                     g1 == write_sensor(g, moisture_entity_id, sensor)
                 IN IF moisture_entity_id \in g.conf
                    THEN update_attributes(g1, moisture_entity_id, sensor.value)
                    ELSE g1
       ELSE g

\* one iteration of the loop for a plant that is a JSON object, driver.py 732-797;
\* an exception inside the try is caught at 795 and the loop continues
connect_plant(g, plant, det) ==
    LET plant_id == str_id(plant)
        answer == AnswerFor(det, plant_id)
        g1 == get_plant_details(g, answer)
        sent == g.config.present /\ g.config.access_token # NoToken
    IN IF sent /\ answer.kind = "ok" /\ answer.body.measurements
       THEN LET g2 == connect_plant_temperature(g1, plant_id, answer.body)
            IN IF g2.raised
               THEN [g2 EXCEPT !.raised = FALSE]
               ELSE [connect_plant_moisture(g2, plant_id, answer.body)
                        EXCEPT !.raised = FALSE]
       ELSE g1

\* the loop, driver.py 731-797: plant.get at 732 is outside the try, so an element
\* that is not a JSON object raises out of the loop
RECURSIVE connect_loop(_, _, _)
connect_loop(g, plants, det) ==
    IF plants = << >> THEN g
    ELSE IF Head(plants).kind = "bad" THEN [g EXCEPT !.raised = TRUE]
    ELSE connect_loop(connect_plant(g, Head(plants), det), Tail(plants), det)

\* driver.py 725-823, after the tokens were saved; `entities` is the list read at 701
connect_refresh(g, had_entities, retries, final, plants, det) ==
    IF had_entities
    THEN LET g1 == get_user_plants(g, retries, final, plants)
             g2 == connect_loop([g1 EXCEPT !.pass = "update"], g1.plants, det)
         IN IF g2.raised THEN g2 ELSE store_entities(g2)
    ELSE create_plant_sensors(g, retries, final, plants, det)

-----------------------------------------------------------------------------
(* What the remote service answers in the runs of the model *)

PlantIds == {"1", "2"}

\* the scenario of the specification: 21.5 degrees "Perfect", no moisture data
ScenarioDetails ==
    Details(TRUE, Measurement(Some(3), StrCurrent("21.5")),
                  Measurement(Some(0), NoCurrent), FALSE)
\* no temperature data although a reading is carried, zero moisture, battery low
DryDetails ==
    Details(TRUE, Measurement(Some(0), StrCurrent("21.5")),
                  Measurement(Some(1), StrCurrent("0")), TRUE)
\* "measurements": {} and a low battery
BareDetails == Details(TRUE, NoMeasurement, NoMeasurement, TRUE)
\* a temperature that is no JSON object, "Perfect" moisture
ScalarDetails ==
    Details(TRUE, ScalarMeasurement, Measurement(Some(3), NoCurrent), FALSE)

DetailBodies == {ScenarioDetails, DryDetails, BareDetails, ScalarDetails}

\* The behaviours of the model are those of three kinds of surroundings.
\*   "data":    logins are granted in full or fail, always with the same token, and
\*              the list call is never answered 401; plant "1" has any of the details
\*              above, plant "2" those of the scenario; a detail request may fail;
\*              the list may carry plants without sensor or without id and elements
\*              that are no JSON objects.
\*   "session": any login answer, a granted login issuing the next of NumTokens
\*              tokens; list calls answered 401 up to MaxListRetries times in a row,
\*              detail requests answered 401; every plant has a sensor and the
\*              details of the scenario.
\*   "host":    the driver process is restarted and the host subscribes to entities;
\*              logins are as in "data", the list names plant "1" only,
\*              which has the details of the scenario or those of a dry plant.
\* In "data" and "session" the process is never restarted and nothing is subscribed.
Settings == {"data", "session", "host"}

TokensOf(kind) == IF kind = "session" THEN NumTokens ELSE 1
LoginAnswersOf(kind) == IF kind = "session" THEN LoginAnswers ELSE {"error", "full"}
ListRetriesOf(kind) == IF kind = "session" THEN 0..MaxListRetries ELSE {0}
ListFinalsOf(kind) == IF kind = "session" THEN ListFinals ELSE {"ok", "error"}

ListElementsOf(kind) ==
    IF kind = "data"
    THEN {Plant(TRUE, "1", TRUE), Plant(TRUE, "2", TRUE), Plant(TRUE, "2", FALSE),
          Plant(FALSE, "", TRUE), BadPlant}
    ELSE IF kind = "session"
    THEN {Plant(TRUE, "1", TRUE), Plant(TRUE, "2", TRUE)}
    ELSE {Plant(TRUE, "1", TRUE)}

PlantListsOf(kind) == UNION {[1..n -> ListElementsOf(kind)] : n \in 0..MaxPlants}

DetailAnswersOf(kind, plant_id) ==
    IF kind = "data"
    THEN IF plant_id = "1"
         THEN {Answer("ok", d) : d \in DetailBodies} \cup {ErrorAnswer}
         ELSE {Answer("ok", ScenarioDetails), ErrorAnswer}
    ELSE IF kind = "session"
    THEN {Answer("ok", ScenarioDetails), UnauthAnswer}
    ELSE {Answer("ok", ScenarioDetails), Answer("ok", DryDetails)}

-----------------------------------------------------------------------------
(* The handlers, one step per remote exchange *)

NoRun == [op |-> "none", pc |-> "idle", pass |-> "none", list |-> << >>, i |-> 0]
Idle == run.pc = "idle"

\* the state a step starts from
Frame ==
    [config |-> fyta_config, file |-> config_file, issued |-> issued,
     rejected |-> rejected, sensors |-> plant_sensors, avail |-> available,
     alias |-> aliased, conf |-> configured, entities_file |-> entities_file,
     sent |-> << >>, list_calls |-> 0, logins |-> 0, tokens |-> TokensOf(setting),
     plants |-> << >>, pass |-> run.pass, raised |-> FALSE]

\* the state a step leaves
Leave(g) ==
    /\ fyta_config' = g.config
    /\ config_file' = g.file
    /\ issued' = g.issued
    /\ rejected' = g.rejected
    /\ plant_sensors' = g.sensors
    /\ available' = g.avail
    /\ aliased' = g.alias
    /\ configured' = g.conf
    /\ entities_file' = g.entities_file

NoPlant == Plant(FALSE, "", FALSE)

\* the record of a step
Step(op, step, g) ==
    [op |-> op, step |-> step, ret |-> "none", pass |-> "none", done |-> TRUE,
     plant |-> NoPlant, answer |-> ErrorAnswer, unvisited |-> 0, probes |-> 0,
     reachable |-> TRUE,
     sent |-> g.sent, list_calls |-> g.list_calls, logins |-> g.logins]

NoLast == Step("none", "none", [sent |-> << >>, list_calls |-> 0, logins |-> 0])

\* what a handler that ran a reconciliation pass returns
Return(op) == IF op = "setup" THEN "SetupComplete" ELSE "none"

\* authenticate_fyta and the token update that follows it,
\* driver.py 716-723 and 1028-1035
relogin(g, answer) ==
    IF LoginGrants(answer)
    THEN LET g1 == issue(g)
             got == AuthGet(answer, g1.issued)
             config == [g1.config EXCEPT !.access_token = got.access_token,
                                         !.refresh_token = got.refresh_token,
                                         !.expires_in = got.expires_in]
         IN [g1 EXCEPT !.config = config, !.file = save_config(config)]
    ELSE [g EXCEPT !.logins = @ + 1]

\* a connect event that finds the session gone
connect_offline_logout(g) == [g EXCEPT !.config = NoConfig]

\* on_r2_connect_cmd, driver.py 826-828: with the network unreachable the handler
\* only logs a warning
connect_offline(g) == g

\* on_r2_connect_cmd, driver.py 695-728, up to the fetch of the plant list
on_r2_connect_cmd ==
    /\ Idle
    /\ device_state' = "CONNECTED"
    /\ UNCHANGED << setting, setup_step, refresh_pending, arg, out, task >>
    /\ \/ /\ ~fyta_config.present
          /\ Leave(Frame) /\ run' = NoRun
          /\ last' = Step("connect", "begin", Frame)
       \/ /\ fyta_config.present                                 \* the probe fails
          /\ Leave(connect_offline(Frame)) /\ run' = NoRun
          /\ last' = [Step("connect", "begin", Frame) EXCEPT
                         !.probes = 1, !.reachable = FALSE]
       \/ /\ fyta_config.present
          /\ \E answer \in LoginAnswersOf(setting) :
                LET g == relogin(Frame, answer)
                    pass == IF DOMAIN available # {} THEN "update" ELSE "create"
                IN /\ Leave(g)
                   /\ run' = IF LoginGrants(answer)
                             THEN [NoRun EXCEPT !.op = "connect", !.pc = "list", !.pass = pass]
                             ELSE NoRun
                   /\ last' = [Step("connect", "begin", g) EXCEPT
                                  !.probes = 1, !.done = ~LoginGrants(answer)]

\* update_entities_from_api, driver.py 1020-1044, with wait_for_network_connection,
\* driver.py 676-692: the probe fails `failed` times before it succeeds, if it does
StartupProbes == {0, MAX_STARTUP_RETRIES - 1}

update_entities_from_api ==
    /\ Idle
    /\ refresh_pending
    /\ refresh_pending' = FALSE
    /\ UNCHANGED << setting, setup_step, device_state, arg, out, task >>
    /\ \/ /\ Leave(Frame) /\ run' = NoRun
          /\ last' = [Step("startup", "begin", Frame) EXCEPT
                         !.probes = MAX_STARTUP_RETRIES, !.reachable = FALSE]
       \/ \E failed \in StartupProbes, answer \in LoginAnswersOf(setting) :
             LET g == relogin(Frame, answer)
             IN /\ Leave(g)
                /\ run' = IF LoginGrants(answer)
                          THEN [NoRun EXCEPT !.op = "startup", !.pc = "list", !.pass = "create"]
                          ELSE NoRun
                /\ last' = [Step("startup", "begin", g) EXCEPT
                               !.probes = failed + 1, !.done = ~LoginGrants(answer)]

\* a setup that drops the session when the login fails
setup_login_failed_logout(g) == [g EXCEPT !.logins = @ + 1, !.config = NoConfig]

\* handle_account_config, driver.py 252-256 and 279-281: authenticate_fyta raised
\* or answered without access_token; the handler has assigned nothing yet
setup_login_failed(g) == [g EXCEPT !.logins = @ + 1]

\* handle_account_config, driver.py 235-271, up to the fetch of the plant list
handle_account_config ==
    \/ /\ Leave(Frame) /\ run' = NoRun                            \* a field is missing
       /\ last' = [Step("setup", "begin", Frame) EXCEPT !.ret = "SetupError"]
    \/ \E answer \in LoginAnswersOf(setting) \cap {"error", "noaccess"} :
          LET g == setup_login_failed(Frame)
          IN /\ Leave(g) /\ run' = NoRun
             /\ last' = [Step("setup", "begin", g) EXCEPT !.ret = "SetupError"]
    \/ \E answer \in LoginAnswersOf(setting) \cap {"partial", "full"} :
          LET g1 == issue(Frame)
              config == AuthGet(answer, g1.issued)
              g == [g1 EXCEPT !.config = config, !.file = save_config(config)]
          IN /\ Leave(g)
             /\ run' = [NoRun EXCEPT !.op = "setup", !.pc = "list", !.pass = "create"]
             /\ last' = [Step("setup", "begin", g) EXCEPT !.done = FALSE]

\* driver_setup_handler, driver.py 205-225, with handle_driver_setup, 228-232
driver_setup_handler ==
    /\ Idle
    /\ UNCHANGED << setting, device_state, refresh_pending, arg, out, task >>
    /\ \/ /\ setup_step' = "ACCOUNT_CONFIG"                \* DriverSetupRequest
          /\ Leave(Frame) /\ run' = NoRun
          /\ last' = [Step("setup_request", "begin", Frame) EXCEPT !.ret = "RequestUserInput"]
       \/ /\ setup_step = "ACCOUNT_CONFIG"                 \* UserDataResponse
          /\ setup_step' = setup_step
          /\ handle_account_config
       \/ /\ setup_step # "ACCOUNT_CONFIG"                 \* UserDataResponse
          /\ setup_step' = setup_step
          /\ Leave(Frame) /\ run' = NoRun
          /\ last' = [Step("setup_data", "begin", Frame) EXCEPT !.ret = "SetupError"]
       \/ /\ setup_step' = "INIT"                          \* AbortDriverSetup
          /\ Leave(Frame) /\ run' = NoRun
          /\ last' = [Step("setup_abort", "begin", Frame) EXCEPT !.ret = "SetupError"]

\* the end of a pass: entities.json is written unless the loop was left by an exception
finish(g) == IF g.raised THEN g ELSE store_entities(g)

\* the call of get_user_plants that opens a pass, driver.py 479 and 729
fetch_plants ==
    /\ run.pc = "list"
    /\ UNCHANGED << setting, setup_step, device_state, refresh_pending, arg, out, task >>
    /\ \E retries \in ListRetriesOf(setting), final \in ListFinalsOf(setting),
          plants \in PlantListsOf(setting) :
          /\ final # "ok" => plants = << >>
          /\ LET g0 == IF run.pass = "create" THEN create_start(Frame) ELSE Frame
                 g == get_user_plants(g0, retries, final, plants)
                 step == [Step(run.op, "list", g) EXCEPT !.pass = run.pass]
             IN IF g.plants = << >>
                THEN /\ Leave(finish(g)) /\ run' = NoRun
                     /\ last' = [step EXCEPT !.ret = Return(run.op)]
                ELSE /\ Leave(g)
                     /\ run' = [run EXCEPT !.pc = "plants", !.list = g.plants, !.i = 1]
                     /\ last' = [step EXCEPT !.done = FALSE]

\* whether the loop asks the remote for the details of this plant
Fetches(pass, plant) ==
    /\ plant.kind = "plant"
    /\ pass = "create" => plant.has_sensor /\ plant.has_id
    /\ pass = "update" => plant.has_id

\* one iteration of the loop of a pass, driver.py 483-621 and 731-797
reconcile_plant ==
    /\ run.pc = "plants"
    /\ UNCHANGED << setting, setup_step, device_state, refresh_pending, arg, out, task >>
    /\ LET plant == run.list[run.i]
       IN \E answer \in DetailAnswersOf(setting, str_id(plant)) \cup {ErrorAnswer} :
             /\ ~Fetches(run.pass, plant) => answer = ErrorAnswer
             /\ Fetches(run.pass, plant) => answer \in DetailAnswersOf(setting, str_id(plant))
             /\ LET det == [p \in PlantIds |-> answer]
                    g == IF run.pass = "create"
                         THEN create_loop(Frame, << plant >>, det)
                         ELSE connect_loop(Frame, << plant >>, det)
                    over == g.raised \/ run.i = Len(run.list)
                    step == [Step(run.op, "plant", g) EXCEPT
                                !.pass = run.pass, !.plant = plant, !.answer = answer,
                                !.done = over, !.unvisited = Len(run.list) - run.i]
                IN /\ Leave(IF over THEN finish(g) ELSE g)
                   /\ run' = IF over THEN NoRun ELSE [run EXCEPT !.i = @ + 1]
                   /\ last' = IF over THEN [step EXCEPT !.ret = Return(run.op)] ELSE step

\* on_subscribe_entities, driver.py 858-917, for entity_ids = [entity_id]
AllEntityIds == {TempId(p) : p \in PlantIds} \cup {MoistId(p) : p \in PlantIds}

on_subscribe_entities ==
    /\ Idle
    /\ setting = "host"
    /\ UNCHANGED << setting, setup_step, device_state, refresh_pending, run, arg, out, task >>
    /\ \E entity_id \in AllEntityIds :
          /\ IF entity_id \in configured \/ entity_id \in DOMAIN available
             THEN Leave(update_attributes([Frame EXCEPT !.conf = @ \cup {entity_id}],
                                          entity_id, available[entity_id].value))
             ELSE Leave(Frame)
          /\ last' = [Step("subscribe", "begin", Frame) EXCEPT !.ret = entity_id]

\* a temperature sensor for every stored entity, whatever its type
load_sensor_temperature(stored) ==
    [PlantTemperatureSensor(stored.plant_id) EXCEPT !.value = stored.value]

\* a sensor object per stored entity that keeps the default value of its class
load_sensor_default(stored) ==
    IF stored.kind = "temperature"
    THEN PlantTemperatureSensor(stored.plant_id)
    ELSE PlantMoistureSensor(stored.plant_id)

\* main, driver.py 939-1000: a sensor object per stored entity, its value restored
load_sensor(stored) ==
    LET sensor == IF stored.kind = "temperature"
                  THEN PlantTemperatureSensor(stored.plant_id)
                  ELSE PlantMoistureSensor(stored.plant_id)
    IN [sensor EXCEPT !.value = stored.value]

\* main, driver.py 920-1017, in a new process: memory is what the files give
main ==
    LET loaded == [id \in DOMAIN entities_file |-> load_sensor(entities_file[id])]
    IN /\ Idle
       /\ setting = "host"
       /\ fyta_config' = config_file
       /\ plant_sensors' = loaded
       /\ available' = loaded
       /\ aliased' = DOMAIN loaded
       /\ configured' = {}
       /\ setup_step' = "INIT"
       /\ device_state' = "CONNECTED"
       /\ refresh_pending' = config_file.present
       /\ run' = NoRun
       /\ last' = Step("main", "begin", Frame)
       /\ UNCHANGED << config_file, entities_file, issued, rejected, setting, arg, out, task >>

-----------------------------------------------------------------------------
(* The specification of the driver *)

NoArg == [code |-> NoStatus, plants |-> << >>, details |-> NoDetails]
NoOut == "(none)"

Init ==
    /\ fyta_config = NoConfig
    /\ config_file = NoConfig
    /\ plant_sensors = EmptyDict
    /\ available = EmptyDict
    /\ aliased = {}
    /\ configured = {}
    /\ entities_file = EmptyDict
    /\ setup_step = "INIT"
    /\ device_state = "CONNECTED"
    /\ refresh_pending = FALSE
    /\ issued = NumTokens
    /\ rejected = {}
    /\ run = NoRun
    /\ task = NoRun
    /\ setting \in Settings
    /\ last = NoLast
    /\ arg = NoArg
    /\ out = NoOut

Next ==
    \/ driver_setup_handler
    \/ on_r2_connect_cmd
    \/ update_entities_from_api
    \/ fetch_plants
    \/ reconcile_plant
    \/ on_subscribe_entities
    \/ main

Spec == Init /\ [][Next]_vars

-----------------------------------------------------------------------------
(* Whole reconciliation passes against a remote state that does not change:
   the driver is logged in, the remote answers every pass with the plant list
   arg.plants and, for each plant, the details arg.details. *)

\* status codes: absent, and the integers around the documented range 0..5
StatusCodes == {NoStatus} \cup {Some(n) : n \in -1..6}

PureCurrents == {NoCurrent, StrCurrent("0"), StrCurrent("21.5"), NumCurrent("0")}

PureMeasurements ==
    {NoMeasurement, ScalarMeasurement}
        \cup {Measurement(st, cur) : st \in {NoStatus, Some(0), Some(1), Some(2), Some(6)},
                                     cur \in PureCurrents}

PureDetails ==
    {NoDetails}
        \cup {Details(TRUE, temp, moist, batt) :
                 temp \in PureMeasurements, moist \in PureMeasurements,
                 batt \in BOOLEAN}

PureLists ==
    {<< Plant(TRUE, "1", TRUE) >>,
     << Plant(TRUE, "1", TRUE), Plant(TRUE, "2", TRUE) >>,
     << Plant(FALSE, "", TRUE), Plant(TRUE, "1", TRUE) >>}

PureArgs ==
    {[code |-> c, plants |-> << >>, details |-> NoDetails] : c \in StatusCodes}
        \cup {[code |-> NoStatus, plants |-> l, details |-> d] :
                 l \in PureLists, d \in PureDetails}

\* the details of every plant
PureDet == [p \in PlantIds |-> Answer("ok", arg.details)]

\* get_measurement_status_text applied to arg.code
status_text ==
    /\ arg.plants = << >>
    /\ out' = get_measurement_status_text(arg.code)
    /\ UNCHANGED << sysvars, arg >>

\* create_plant_sensors as update_entities_from_api runs it, driver.py 1037
startup_pass ==
    LET g == create_plant_sensors(Frame, 0, "ok", arg.plants, PureDet)
    IN /\ arg.plants # << >>
       /\ Leave(g)
       /\ last' = [Step("startup", "pass", g) EXCEPT !.pass = "create"]
       /\ UNCHANGED << setup_step, device_state, refresh_pending, run, setting, arg, out, task >>

\* the refresh of on_r2_connect_cmd, driver.py 725-823
connect_pass ==
    LET had_entities == DOMAIN available # {}
        g == connect_refresh(Frame, had_entities, 0, "ok", arg.plants, PureDet)
    IN /\ arg.plants # << >>
       /\ Leave(g)
       /\ last' = [Step("connect", "pass", g) EXCEPT
                      !.pass = IF had_entities THEN "update" ELSE "create"]
       /\ UNCHANGED << setup_step, device_state, refresh_pending, run, setting, arg, out, task >>

\* the driver after a setup that logged in with token 1 and found no plant
InitPure ==
    /\ fyta_config = AuthGet("full", 1)
    /\ config_file = save_config(AuthGet("full", 1))
    /\ plant_sensors = EmptyDict
    /\ available = EmptyDict
    /\ aliased = {}
    /\ configured = {}
    /\ entities_file = EmptyDict
    /\ setup_step = "ACCOUNT_CONFIG"
    /\ device_state = "CONNECTED"
    /\ refresh_pending = FALSE
    /\ issued = 1
    /\ rejected = {}
    /\ run = NoRun
    /\ task = NoRun
    /\ setting = "data"
    /\ last = NoLast
    /\ arg \in PureArgs
    /\ out = NoOut

NextPure ==
    \/ status_text
    \/ startup_pass
    \/ connect_pass

SpecPure == InitPure /\ [][NextPure]_vars

-----------------------------------------------------------------------------
(* The refresh task of main beside the connect handler.  main starts
   update_entities_from_api with asyncio.create_task and returns, so the task and
   the handler of a connect event are two coroutines of one event loop: each runs
   until its next await, and no lock of driver.py keeps one out while the other
   is suspended.  The remote data do not change: the login succeeds, the list is
   arg.plants and the details of every plant are arg.details. *)

OverlapArgs ==
    {[code |-> NoStatus, plants |-> l, details |-> d] :
        l \in PureLists, d \in DetailBodies}

\* the state a step of the coroutine r starts from
FrameOf(r) == [Frame EXCEPT !.pass = r.pass]

\* get_user_plants as the pass of r calls it, driver.py 479 and 729
advance_list(r) ==
    LET g0 == IF r.pass = "create" THEN create_start(FrameOf(r)) ELSE FrameOf(r)
        g == get_user_plants(g0, 0, "ok", arg.plants)
        step == [Step(r.op, "list", g) EXCEPT !.pass = r.pass]
    IN IF g.plants = << >>
       THEN [g |-> finish(g), r |-> NoRun, last |-> step]
       ELSE [g |-> g, r |-> [r EXCEPT !.pc = "plants", !.list = g.plants, !.i = 1],
             last |-> [step EXCEPT !.done = FALSE]]

\* one iteration of the loop of the pass of r, driver.py 483-621 and 731-797
advance_plant(r) ==
    LET plant == r.list[r.i]
        g == IF r.pass = "create"
             THEN create_loop(FrameOf(r), << plant >>, PureDet)
             ELSE connect_loop(FrameOf(r), << plant >>, PureDet)
        over == g.raised \/ r.i = Len(r.list)
        step == [Step(r.op, "plant", g) EXCEPT
                    !.pass = r.pass, !.plant = plant,
                    !.answer = IF Fetches(r.pass, plant)
                               THEN PureDet[str_id(plant)] ELSE ErrorAnswer,
                    !.done = over, !.unvisited = Len(r.list) - r.i]
    IN [g |-> IF over THEN finish(g) ELSE g,
        r |-> IF over THEN NoRun ELSE [r EXCEPT !.i = @ + 1],
        last |-> step]

\* the coroutine r runs from one await to the next
advance(r) == IF r.pc = "list" THEN advance_list(r) ELSE advance_plant(r)

\* update_entities_from_api, driver.py 1020-1035, as the task main created
refresh_task_begin ==
    LET g == relogin(Frame, "full")
    IN /\ refresh_pending
       /\ task.pc = "idle"
       /\ refresh_pending' = FALSE
       /\ Leave(g)
       /\ task' = [NoRun EXCEPT !.op = "startup", !.pc = "list", !.pass = "create"]
       /\ last' = [Step("startup", "begin", g) EXCEPT !.probes = 1, !.done = FALSE]
       /\ UNCHANGED << run, setup_step, device_state, setting, arg, out >>

\* create_plant_sensors in the task, driver.py 1037, between two of its awaits
refresh_task_step ==
    /\ task.pc # "idle"
    /\ LET n == advance(task)
       IN /\ Leave(n.g)
          /\ task' = n.r
          /\ last' = n.last
    /\ UNCHANGED << run, setup_step, device_state, refresh_pending, setting, arg, out >>

\* on_r2_connect_cmd, driver.py 695-728, for a connect event that arrives while
\* the task is under way
connect_begin ==
    LET g == relogin(Frame, "full")
        pass == IF DOMAIN available # {} THEN "update" ELSE "create"
    IN /\ Idle
       /\ task.pc # "idle"
       /\ device_state' = "CONNECTED"
       /\ Leave(g)
       /\ run' = [NoRun EXCEPT !.op = "connect", !.pc = "list", !.pass = pass]
       /\ last' = [Step("connect", "begin", g) EXCEPT !.probes = 1, !.done = FALSE]
       /\ UNCHANGED << task, setup_step, refresh_pending, setting, arg, out >>

\* the refresh of on_r2_connect_cmd, driver.py 729-823, between two of its awaits
connect_step ==
    /\ ~Idle
    /\ LET n == advance(run)
       IN /\ Leave(n.g)
          /\ run' = n.r
          /\ last' = n.last
    /\ UNCHANGED << task, setup_step, device_state, refresh_pending, setting, arg, out >>

\* the process after main has started it with a session and no stored entity
InitOverlap ==
    /\ fyta_config = AuthGet("full", 1)
    /\ config_file = save_config(AuthGet("full", 1))
    /\ plant_sensors = EmptyDict
    /\ available = EmptyDict
    /\ aliased = {}
    /\ configured = {}
    /\ entities_file = EmptyDict
    /\ setup_step = "INIT"
    /\ device_state = "CONNECTED"
    /\ refresh_pending = TRUE
    /\ issued = 1
    /\ rejected = {}
    /\ run = NoRun
    /\ task = NoRun
    /\ setting = "data"
    /\ last = NoLast
    /\ arg \in OverlapArgs
    /\ out = NoOut

NextOverlap ==
    \/ refresh_task_begin
    \/ refresh_task_step
    \/ connect_begin
    \/ connect_step

SpecOverlap == InitOverlap /\ [][NextOverlap]_vars

-----------------------------------------------------------------------------
(* One call of get_user_plants and of get_plant_details against a remote whose
   answer to the k-th request of the call is arg.script[k]:
     "ok"            200 with arg.plants, or with arg.details
     "timeout"       httpx.TimeoutException, a RequestError
     "refused"       httpx.ConnectError, a RequestError
     "http_error"    a status of 400 or more other than 401
     "unauthorized"  401, after which the login succeeds
     "malformed"     a body that response.json() does not parse            *)

MaxAttempts == 3

Outcomes == {"ok", "timeout", "refused", "http_error", "unauthorized", "malformed"}

\* the number of answers at the head of the script that are among `kinds`
RECURSIVE Leading(_, _)
Leading(script, kinds) ==
    IF script = << >> \/ Head(script) \notin kinds THEN 0
    ELSE 1 + Leading(Tail(script), kinds)

\* a call that repeats its request on every failure
reauth_retries_any(script) ==
    IF Leading(script, Outcomes \ {"ok"}) < Len(script)
    THEN Leading(script, Outcomes \ {"ok"}) ELSE Len(script) - 1

\* get_user_plants, driver.py 419-432: the request is sent again after a 401 and
\* the login that follows it, and after nothing else
reauth_retries(script) == Leading(script, {"unauthorized"})

\* get_user_plants, driver.py 407-438: what the handlers of the call make of the
\* answer that is not followed by another request
ListFinalOf(outcome) == IF outcome = "ok" THEN "ok" ELSE "error"

\* get_plant_details, driver.py 458-468: every failure gives {}
DetailAnswerOf(outcome, body) ==
    IF outcome = "ok" THEN Answer("ok", body)
    ELSE IF outcome = "unauthorized" THEN UnauthAnswer
    ELSE ErrorAnswer

\* the scripts under which the call ends within MaxAttempts requests
FetchScripts ==
    {script \in [1..MaxAttempts -> Outcomes] :
        Leading(script, {"unauthorized"}) < MaxAttempts}

FetchArgs ==
    {[code |-> NoStatus, plants |-> l, details |-> d, script |-> script] :
        l \in PureLists, d \in {ScenarioDetails, DryDetails}, script \in FetchScripts}

\* get_user_plants, driver.py 391-438; neither it nor get_plant_details sleeps
list_call ==
    LET retries == reauth_retries(arg.script)
        g == get_user_plants(Frame, retries, ListFinalOf(arg.script[retries + 1]),
                             arg.plants)
    IN /\ last.op = "none"
       /\ Leave(g)
       /\ last' = Step("list_call", "call", g)
       /\ out' = [result |-> g.plants, waits |-> << >>]
       /\ UNCHANGED << setup_step, device_state, refresh_pending, run, task, setting, arg >>

\* get_plant_details, driver.py 441-468
details_call ==
    LET answer == DetailAnswerOf(arg.script[1], arg.details)
        g == get_plant_details(Frame, answer)
    IN /\ last.op = "none"
       /\ Leave(g)
       /\ last' = Step("details_call", "call", g)
       /\ out' = [result |-> IF g.sent = << >> THEN NoDetails ELSE answer.body,
                  waits |-> << >>]
       /\ UNCHANGED << setup_step, device_state, refresh_pending, run, task, setting, arg >>

\* the driver after a setup that logged in with token 1 and found no plant
InitFetch ==
    /\ fyta_config = AuthGet("full", 1)
    /\ config_file = save_config(AuthGet("full", 1))
    /\ plant_sensors = EmptyDict
    /\ available = EmptyDict
    /\ aliased = {}
    /\ configured = {}
    /\ entities_file = EmptyDict
    /\ setup_step = "ACCOUNT_CONFIG"
    /\ device_state = "CONNECTED"
    /\ refresh_pending = FALSE
    /\ issued = 1
    /\ rejected = {}
    /\ run = NoRun
    /\ task = NoRun
    /\ setting = "session"
    /\ last = NoLast
    /\ arg \in FetchArgs
    /\ out = NoOut

NextFetch ==
    \/ list_call
    \/ details_call

SpecFetch == InitFetch /\ [][NextFetch]_vars

\* What _fyta_config holds when a call starts: nothing (no setup yet, load_config
\* returned None), a FytaConfig whose access_token is null (config.json without
\* the field, driver.py 347), or the session of a setup
NullTokenConfig == [AuthGet("full", 1) EXCEPT !.access_token = NoToken]
Sessions == {NoConfig, NullTokenConfig, AuthGet("full", 1)}

\* the driver before and after a setup, with the entities of no plant
InitToken ==
    /\ fyta_config \in Sessions
    /\ config_file = save_config(fyta_config)
    /\ plant_sensors = EmptyDict
    /\ available = EmptyDict
    /\ aliased = {}
    /\ configured = {}
    /\ entities_file = EmptyDict
    /\ setup_step = IF fyta_config.present THEN "ACCOUNT_CONFIG" ELSE "INIT"
    /\ device_state = "CONNECTED"
    /\ refresh_pending = FALSE
    /\ issued = 1
    /\ rejected = {}
    /\ run = NoRun
    /\ task = NoRun
    /\ setting = "session"
    /\ last = NoLast
    /\ arg \in FetchArgs
    /\ out = NoOut

NextToken_calls ==
    \/ list_call
    \/ details_call

SpecToken == InitToken /\ [][NextToken_calls]_vars

-----------------------------------------------------------------------------
(* Whole runs of the two refreshing operations, from the event to the return,
   against a remote that may fail: the login is answered as LoginAnswers says, the
   list call with a list or an error, every detail call with one answer. *)

OpsElements == {Plant(TRUE, "1", TRUE), BadPlant}
OpsLists == UNION {[1..n -> OpsElements] : n \in 0..MaxPlants}
OpsAnswers == {Answer("ok", ScenarioDetails), Answer("ok", ScalarDetails), ErrorAnswer}

\* what the operation met: a login that gave no token, a list call that failed,
\* an exception that ended the pass
Outcome(answer, final, g) ==
    [failed |-> ~LoginGrants(answer) \/ final # "ok" \/ g.raised,
     login |-> answer, final |-> final, raised |-> g.raised]

\* on_r2_connect_cmd, driver.py 695-830, with the network reachable
connect_event ==
    \E answer \in LoginAnswers, final \in {"ok", "error"}, plants \in OpsLists,
       reply \in OpsAnswers :
       LET g1 == relogin(Frame, answer)
           det == [p \in PlantIds |-> reply]
           g == IF LoginGrants(answer)
                THEN connect_refresh(g1, DOMAIN available # {}, 0, final,
                                     IF final = "ok" THEN plants ELSE << >>, det)
                ELSE g1
       IN /\ final # "ok" => plants = << >>
          /\ ~LoginGrants(answer) => plants = << >> /\ final = "error"
          /\ fyta_config.present
          /\ Leave(g)
          /\ device_state' = "CONNECTED"
          /\ last' = [Step("connect", "op", g) EXCEPT !.probes = 1]
          /\ out' = Outcome(answer, final, g)
          /\ UNCHANGED << setup_step, refresh_pending, run, task, setting, arg >>

\* update_entities_from_api, driver.py 1020-1044, with the network reachable
startup_refresh ==
    \E answer \in LoginAnswers, final \in {"ok", "error"}, plants \in OpsLists,
       reply \in OpsAnswers :
       LET g1 == relogin(Frame, answer)
           det == [p \in PlantIds |-> reply]
           g == IF LoginGrants(answer)
                THEN create_plant_sensors(g1, 0, final,
                                          IF final = "ok" THEN plants ELSE << >>, det)
                ELSE g1
       IN /\ final # "ok" => plants = << >>
          /\ ~LoginGrants(answer) => plants = << >> /\ final = "error"
          /\ fyta_config.present
          /\ Leave(g)
          /\ last' = [Step("startup", "op", g) EXCEPT !.probes = 1]
          /\ out' = Outcome(answer, final, g)
          /\ UNCHANGED << setup_step, device_state, refresh_pending, run, task,
                          setting, arg >>

\* the driver after a setup that logged in with token 1 and found no plant
InitOps ==
    /\ fyta_config = AuthGet("full", 1)
    /\ config_file = save_config(AuthGet("full", 1))
    /\ plant_sensors = EmptyDict
    /\ available = EmptyDict
    /\ aliased = {}
    /\ configured = {}
    /\ entities_file = EmptyDict
    /\ setup_step = "ACCOUNT_CONFIG"
    /\ device_state = "CONNECTED"
    /\ refresh_pending = FALSE
    /\ issued = 1
    /\ rejected = {}
    /\ run = NoRun
    /\ task = NoRun
    /\ setting = "data"
    /\ last = NoLast
    /\ arg = NoArg
    /\ out = NoOut

NextOps ==
    \/ connect_event
    \/ startup_refresh

SpecOps == InitOps /\ [][NextOps]_vars

-----------------------------------------------------------------------------
(* wait_for_network_connection, driver.py 676-692, against a network whose
   answer to the k-th probe is arg.script[k], and the start of
   update_entities_from_api that rests on it. *)

RETRY_DELAY_SECONDS == 10

\* the loop from `attempt` on; w counts the probes and lists the sleeps so far;
\* the loop sleeps after a failed attempt below sleep_below
RECURSIVE wait_attempt(_, _, _, _, _, _)
wait_attempt(attempt, max_retries, delay, script, w, sleep_below) ==
    IF attempt > max_retries THEN [w EXCEPT !.result = FALSE]
    ELSE LET w1 == [w EXCEPT !.probes = @ + 1]
         IN IF script[attempt] THEN [w1 EXCEPT !.result = TRUE]
            ELSE wait_attempt(attempt + 1, max_retries, delay, script,
                              IF attempt < sleep_below
                              THEN [w1 EXCEPT !.sleeps = Append(@, delay)] ELSE w1,
                              sleep_below)

NoWait == [result |-> FALSE, probes |-> 0, sleeps |-> << >>]

\* a loop that sleeps after every failed probe
wait_for_network_connection_sleepy(max_retries, delay, script) ==
    wait_attempt(1, max_retries, delay, script, NoWait, max_retries + 1)

wait_for_network_connection(max_retries, delay, script) ==
    wait_attempt(1, max_retries, delay, script, NoWait, max_retries)

WaitArgs ==
    {[code |-> NoStatus, plants |-> << >>, details |-> NoDetails,
      max_retries |-> n, delay |-> d, script |-> script] :
        n \in 0..MAX_STARTUP_RETRIES, d \in {1, RETRY_DELAY_SECONDS},
        script \in [1..MAX_STARTUP_RETRIES -> BOOLEAN]}

\* wait_for_network_connection(arg.max_retries, arg.delay)
wait_call ==
    /\ last.op = "none"
    /\ out' = wait_for_network_connection(arg.max_retries, arg.delay, arg.script)
    /\ last' = Step("wait", "call", Frame)
    /\ Leave(Frame)
    /\ UNCHANGED << setup_step, device_state, refresh_pending, run, task, setting, arg >>

\* update_entities_from_api, driver.py 1020-1044, up to the fetch of the plant
\* list: the wait with its default arguments, then the login
startup_wait ==
    \E answer \in LoginAnswers :
       LET w == wait_for_network_connection(MAX_STARTUP_RETRIES, RETRY_DELAY_SECONDS,
                                            arg.script)
           g == IF w.result THEN relogin(Frame, answer) ELSE Frame
           started == w.result /\ LoginGrants(answer)
       IN /\ refresh_pending
          /\ ~w.result => answer = "error"
          /\ refresh_pending' = FALSE
          /\ Leave(g)
          /\ run' = IF started
                    THEN [NoRun EXCEPT !.op = "startup", !.pc = "list", !.pass = "create"]
                    ELSE NoRun
          /\ last' = [Step("startup", "begin", g) EXCEPT
                         !.probes = w.probes, !.reachable = w.result,
                         !.done = ~started]
          /\ out' = w
          /\ UNCHANGED << setup_step, device_state, task, setting, arg >>

\* the process after main has started it with a session and no stored entity
InitWait ==
    /\ fyta_config = AuthGet("full", 1)
    /\ config_file = save_config(AuthGet("full", 1))
    /\ plant_sensors = EmptyDict
    /\ available = EmptyDict
    /\ aliased = {}
    /\ configured = {}
    /\ entities_file = EmptyDict
    /\ setup_step = "INIT"
    /\ device_state = "CONNECTED"
    /\ refresh_pending = TRUE
    /\ issued = 1
    /\ rejected = {}
    /\ run = NoRun
    /\ task = NoRun
    /\ setting = "data"
    /\ last = NoLast
    /\ arg \in WaitArgs
    /\ out = NoOut

NextWait ==
    \/ wait_call
    \/ startup_wait

SpecWait == InitWait /\ [][NextWait]_vars

-----------------------------------------------------------------------------
(* Whole setup events: driver_setup_handler runs from the message to the action
   it returns, against a remote whose login answers as in LoginAnswers and whose
   plant list call answers 200 with a list, 200 with a body whose "plants" is
   null, or with a failure. *)

\* create_plant_sensors, driver.py 471-660, for a plant list call that is answered
\* with `final`; with "plants": null in the body get_user_plants returns None
\* (driver.py 412-414) and len(plants) at 480 raises out of create_plant_sensors
create_plant_sensors_of(g, final, countable, plants, det) ==
    IF final = "ok" /\ ~countable
    THEN [get_user_plants(create_start(g), 0, "ok", << >>) EXCEPT !.raised = TRUE]
    ELSE create_plant_sensors(g, 0, final, plants, det)

\* what a setup event met and did
SetupOutcome(msg, fields, answer, g) ==
    [msg |-> msg, fields |-> fields, login |-> answer, raised |-> g.raised]

\* driver_setup_handler, driver.py 213-216, with handle_driver_setup, 228-232
on_driver_setup_request ==
    /\ setup_step' = "ACCOUNT_CONFIG"
    /\ Leave(Frame)
    /\ last' = [Step("setup_request", "op", Frame) EXCEPT !.ret = "RequestUserInput"]
    /\ out' = SetupOutcome("DriverSetupRequest", FALSE, "error", Frame)
    /\ UNCHANGED << device_state, refresh_pending, run, task, setting, arg >>

\* driver_setup_handler, driver.py 217-220 and 225, with handle_account_config,
\* 235-281, from the message to the action it returns
on_user_data_response ==
    \E fields \in BOOLEAN, answer \in LoginAnswers, final \in {"ok", "error"},
       countable \in BOOLEAN, plants \in OpsLists, reply \in OpsAnswers :
       LET processed == setup_step = "ACCOUNT_CONFIG"
           logs_in == processed /\ fields
           loads == logs_in /\ LoginGrants(answer)
           det == [p \in PlantIds |-> reply]
           g1 == issue(Frame)
           config == AuthGet(answer, g1.issued)
           g2 == [g1 EXCEPT !.config = config, !.file = save_config(config)]
           g == IF loads THEN create_plant_sensors_of(g2, final, countable, plants, det)
                ELSE IF logs_in THEN setup_login_failed(Frame)
                ELSE Frame
           op == IF processed THEN "setup" ELSE "setup_data"
           ret == IF loads /\ ~g.raised THEN "SetupComplete" ELSE "SetupError"
       IN /\ ~processed => ~fields
          /\ ~logs_in => answer = "error"
          /\ ~loads => final = "error" /\ countable
          /\ (final # "ok" \/ ~countable) => plants = << >> /\ reply = ErrorAnswer
          /\ setup_step' = setup_step
          /\ Leave(g)
          /\ last' = [Step(op, "op", g) EXCEPT !.ret = ret]
          /\ out' = SetupOutcome("UserDataResponse", fields, answer, g)
          /\ UNCHANGED << device_state, refresh_pending, run, task, setting, arg >>

\* driver_setup_handler, driver.py 221-225
on_abort_driver_setup ==
    /\ setup_step' = "INIT"
    /\ Leave(Frame)
    /\ last' = [Step("setup_abort", "op", Frame) EXCEPT !.ret = "SetupError"]
    /\ out' = SetupOutcome("AbortDriverSetup", FALSE, "error", Frame)
    /\ UNCHANGED << device_state, refresh_pending, run, task, setting, arg >>

\* the driver before its first setup, or after a setup that logged in with
\* token 1 and found no plant
InitSetup ==
    /\ fyta_config \in {NoConfig, AuthGet("full", 1)}
    /\ config_file = save_config(fyta_config)
    /\ plant_sensors = EmptyDict
    /\ available = EmptyDict
    /\ aliased = {}
    /\ configured = {}
    /\ entities_file = EmptyDict
    /\ setup_step = "INIT"
    /\ device_state = "CONNECTED"
    /\ refresh_pending = FALSE
    /\ issued = IF fyta_config.present THEN 1 ELSE NumTokens
    /\ rejected = {}
    /\ run = NoRun
    /\ task = NoRun
    /\ setting = "session"
    /\ last = NoLast
    /\ arg = NoArg
    /\ out = NoOut

NextSetup ==
    \/ on_driver_setup_request
    \/ on_user_data_response
    \/ on_abort_driver_setup

SpecSetup == InitSetup /\ [][NextSetup]_vars

-----------------------------------------------------------------------------
(* Properties *)

\* statusLabel as the specification tabulates it
statusLabel(code) ==
    CASE code = Some(0) -> "No Data"
      [] code = Some(1) -> "Too Low"
      [] code = Some(2) -> "Low"
      [] code = Some(3) -> "Perfect"
      [] code = Some(4) -> "High"
      [] code = Some(5) -> "Too High"
      [] OTHER -> "Unknown"

\* the value ends with the battery warning
EndsWithSuffix(value) ==
    /\ Len(value) >= Len(BatterySuffix)
    /\ SubSeq(value, Len(value) - Len(BatterySuffix) + 1, Len(value)) = BatterySuffix

\* the value without one battery warning at its end
BaseValue(value) ==
    IF EndsWithSuffix(value)
    THEN SubSeq(value, 1, Len(value) - Len(BatterySuffix))
    ELSE value

\* how often the battery warning occurs in the value
SuffixCount(value) ==
    Cardinality({i \in 1..Len(value) :
                    /\ i + Len(BatterySuffix) - 1 <= Len(value)
                    /\ SubSeq(value, i, i + Len(BatterySuffix) - 1) = BatterySuffix})

\* the step taken last fetched the details of a plant with success
Reconciled ==
    /\ last.step = "plant"
    /\ Fetches(last.pass, last.plant)
    /\ last.answer.kind = "ok"

LastDetails == last.answer.body
LastTempId == TempId(str_id(last.plant))
LastMoistId == MoistId(str_id(last.plant))

\* the entity set: ids with value and status text
EntitySet ==
    [id \in DOMAIN plant_sensors |->
        << plant_sensors[id].value, plant_sensors[id].status >>]

\* C1: after a pass has reached a plant with a sensor whose details carry a structured
\* moisture record, the base value of its moisture entity is "No Data" for status 0,
\* "Too Low" for status 1 with values.current = "0", statusLabel(status) otherwise.
C1_MoistureBaseValue ==
    (/\ Reconciled
     /\ last.plant.has_sensor
     /\ LastDetails.measurements
     /\ LastDetails.moisture.kind = "record"
     /\ LastMoistId \in DOMAIN plant_sensors)
    => LET moisture == LastDetails.moisture
           expected == IF moisture.status = Some(0) THEN "No Data"
                       ELSE IF moisture.status = Some(1)
                               /\ moisture.current = StrCurrent("0") THEN "Too Low"
                       ELSE statusLabel(moisture.status)
       IN BaseValue(plant_sensors[LastMoistId].value) = expected

\* C2: after a pass has reached a plant with a sensor whose details carry a structured
\* temperature record, the value of its temperature entity is "0" for status 0,
\* else the string form of values.current when present, and its status text is
\* statusLabel(status) in either case.
C2_TemperatureValue ==
    (/\ Reconciled
     /\ last.plant.has_sensor
     /\ LastDetails.measurements
     /\ LastDetails.temperature.kind = "record"
     /\ LastTempId \in DOMAIN plant_sensors)
    => LET temperature == LastDetails.temperature
           entity == plant_sensors[LastTempId]
       IN /\ temperature.status = Some(0) => entity.value = "0"
          /\ temperature.status # Some(0) /\ temperature.current.has
                => entity.value = temperature.current.text
          /\ entity.status = statusLabel(temperature.status)

\* C3: get_measurement_status_text maps 0 to "No Data", 1 to "Too Low", 2 to "Low",
\* 3 to "Perfect", 4 to "High", 5 to "Too High" and every other code, an absent one
\* included, to "Unknown".
C3_StatusLabel == out # NoOut => out = statusLabel(arg.code)

C3_Witness == arg.code = NoStatus /\ out = "Unknown"

\* the value carries the battery warning exactly once, at its end, when the battery
\* is low, and not at all when it is not
Decorated(value, battery_low) ==
    IF battery_low
    THEN EndsWithSuffix(value) /\ SuffixCount(value) = 1
    ELSE SuffixCount(value) = 0

C5_Idempotent ==
    [][(last.step = "pass" /\ last'.step = "pass") => EntitySet' = EntitySet]_vars

\* C6: no step of a reconciliation pass removes an entity, and a step changes value
\* and status text of no entity but those of the plant it processes; so the entities
\* of a plant the list does not name, and all entities when the list comes back
\* empty, are as they were.
C6_NoRemoval ==
    [][run.pc \in {"list", "plants"}
          => \A id \in DOMAIN plant_sensors :
                /\ id \in DOMAIN plant_sensors'
                /\ (last'.step = "plant"
                       /\ id \in {TempId(str_id(last'.plant)), MoistId(str_id(last'.plant))})
                   \/ EntitySet'[id] = EntitySet[id]]_vars

\* a pass whose list call failed has ended and the entities are still there
C6_Witness ==
    /\ last.step = "list"
    /\ last.done
    /\ last.list_calls = 1
    /\ TempId("1") \in DOMAIN plant_sensors
    /\ plant_sensors[TempId("1")].value = "21.5"

\* C7: after a pass has reached a plant, each of its entities shows the same value
\* and status text in the available entities as in _plant_sensors, as it must when
\* both hold one record that the pass has written in place.
C7_InPlace ==
    (Reconciled /\ LastTempId \in DOMAIN plant_sensors)
    => \A id \in {LastTempId, LastMoistId} :
          /\ id \in DOMAIN available
          /\ available[id].value = plant_sensors[id].value
          /\ available[id].status = plant_sensors[id].status

\* C8: a pass ends only after it has visited every plant of the list.
C8_Isolation ==
    (last.step = "plant" /\ last.done) => last.unvisited = 0

\* C9: one call of get_user_plants sends at most two list requests and logs in
\* at most once.
C9_OneRetry ==
    last.step = "list" => last.list_calls <= 2 /\ last.logins <= 1

\* C10: no request carries a token that a request before it was answered 401 with.
C10_NoStaleToken ==
    \A i \in 1..Len(last.sent) : ~last.sent[i].stale

\* C11: the connect handler and the startup refresh log in only when the remote
\* has rejected the stored access token.
C11_LoginOnlyAfterRejection ==
    [][(last'.op \in {"connect", "startup"} /\ last'.step = "begin"
           /\ last'.logins > 0)
          => fyta_config.access_token \in rejected]_vars

\* C12: whenever a handler is suspended or has returned, the configuration file
\* holds the access token, refresh token and expiry of the session in memory.
C12_SessionPersisted ==
    fyta_config.present => config_file = fyta_config

\* C13: when main has run, every entity of entities.json is in _plant_sensors and
\* in the available entities with its stored value and the device state is
\* CONNECTED, and main has sent no probe, login, list or detail request: the
\* requests of the process start come from the refresh it scheduled.
C13_LoadedBeforeNetwork ==
    last.op = "main"
    => /\ DOMAIN plant_sensors = DOMAIN entities_file
       /\ \A id \in DOMAIN entities_file :
             /\ id \in DOMAIN available
             /\ plant_sensors[id].value = entities_file[id].value
             /\ available[id].value = entities_file[id].value
       /\ device_state = "CONNECTED"
       /\ last.sent = << >>
       /\ last.probes = 0 /\ last.logins = 0 /\ last.list_calls = 0
       /\ Idle

\* main has loaded a stored temperature and scheduled the refresh
C13_Witness ==
    /\ last.op = "main"
    /\ refresh_pending
    /\ TempId("1") \in DOMAIN entities_file
    /\ entities_file[TempId("1")].value = "21.5"
    /\ MoistId("1") \in DOMAIN entities_file

\* C14: when the last step of a pass of the startup refresh or of a connect event
\* has changed the value of a configured entity in _plant_sensors, the configured
\* entity shows that value at the end of the pass.
C14_PublishedAfterPass ==
    [][(last'.op \in {"startup", "connect"} /\ last'.step = "plant" /\ last'.done)
          => \A id \in configured' \cap DOMAIN plant_sensors' :
                (id \notin DOMAIN plant_sensors
                    \/ plant_sensors'[id].value # plant_sensors[id].value)
                => /\ id \in DOMAIN available'
                   /\ available'[id].value = plant_sensors'[id].value]_vars

\* C15: a subscribe event for an id of _plant_sensors leaves the entity configured
\* with state ON and the value _plant_sensors holds for the id, and sends no
\* request.
C15_SubscribePublishes ==
    (last.op = "subscribe" /\ last.ret \in DOMAIN plant_sensors)
    => /\ last.ret \in configured
       /\ last.ret \in DOMAIN available
       /\ available[last.ret].state = "ON"
       /\ available[last.ret].value = plant_sensors[last.ret].value
       /\ last.sent = << >>
       /\ last.probes = 0 /\ last.logins = 0 /\ last.list_calls = 0

\* C16: a connect event whose probe finds the network unreachable changes neither
\* _plant_sensors nor the session nor config.json nor entities.json, sends no login
\* and no data request, and starts no pass.
C16_OfflineConnect ==
    [][(last'.op = "connect" /\ ~last'.reachable)
          => /\ UNCHANGED << plant_sensors, fyta_config, config_file, entities_file >>
             /\ last'.logins = 0
             /\ last'.list_calls = 0
             /\ last'.sent = << >>
             /\ run' = NoRun]_vars

\* a connect event met an unreachable network with a session and entities in place
C16_Witness ==
    /\ last.op = "connect"
    /\ ~last.reachable
    /\ fyta_config.present
    /\ TempId("1") \in DOMAIN plant_sensors
    /\ TempId("1") \in DOMAIN entities_file

\* C17: the connect handler is never suspended at a request and returns without
\* having awaited a probe, a login or a fetch.
C17_ConnectNeverWaits ==
    /\ run.op # "connect"
    /\ last.op = "connect"
       => /\ last.done
          /\ last.probes = 0 /\ last.logins = 0 /\ last.list_calls = 0
          /\ last.sent = << >>

\* C18: no reconciliation changes _plant_sensors while another one is suspended at
\* a request: the connect handler does not while the refresh task is under way,
\* nor the task while the handler is.
C18_OneInFlight ==
    [][plant_sensors' # plant_sensors
          => /\ last'.op = "connect" => task.pc = "idle"
             /\ last'.op = "startup" => run.pc = "idle"]_vars

\* what one reconciliation of the remote data leaves, starting from no entity
SinglePass ==
    create_plant_sensors([Frame EXCEPT !.sensors = EmptyDict, !.avail = EmptyDict,
                                       !.alias = {}, !.conf = {},
                                       !.entities_file = EmptyDict],
                         0, "ok", arg.plants, PureDet)

\* ids with value and status text
Shown(sensors) ==
    [id \in DOMAIN sensors |-> << sensors[id].value, sensors[id].status >>]

\* C19: when the refresh task and the connect-triggered refreshes that overlapped
\* it have all ended, _plant_sensors and entities.json hold what one reconciliation
\* of the same remote data leaves.
C19_OverlapHarmless ==
    (Idle /\ task.pc = "idle" /\ last.op \in {"startup", "connect"})
    => /\ EntitySet = Shown(SinglePass.sensors)
       /\ Shown(entities_file) = Shown(SinglePass.entities_file)

\* C20: when the refresh that main scheduled has ended, whether it gave up on an
\* unreachable network or ran its pass, the next attempt is scheduled.
C20_KeepsPolling ==
    (last.op = "startup" /\ last.done) => refresh_pending

\* the requests the call has sent
Attempts == Len(last.sent)

\* the value the call returns when the remote answers "ok"
SuccessValue == IF last.op = "list_call" THEN arg.plants ELSE arg.details
EmptyValue == IF last.op = "list_call" THEN << >> ELSE NoDetails

\* C21: a call whose requests time out is repeated up to MaxAttempts times: when
\* the first answer that is no timeout is "ok", the call returns its value after
\* one request per timeout and one more, having waited k times the first wait
\* before the retry k; when all MaxAttempts answers are timeouts it returns empty
\* after MaxAttempts requests.
C21_RetryOnTimeout ==
    last.op \in {"list_call", "details_call"}
    => LET timeouts == Leading(arg.script, {"timeout"})
       IN /\ (timeouts < MaxAttempts /\ arg.script[timeouts + 1] = "ok")
             => /\ out.result = SuccessValue
                /\ Attempts = timeouts + 1
                /\ Len(out.waits) = timeouts
                /\ \A k \in 1..timeouts : out.waits[k] = k * out.waits[1]
          /\ timeouts = MaxAttempts
             => /\ out.result = EmptyValue
                /\ Attempts = MaxAttempts

\* C22: a call whose first request fails with anything but a timeout returns
\* empty and has sent that one request only.
C22_NoRetryOnError ==
    (last.op \in {"list_call", "details_call"}
        /\ arg.script[1] \in {"refused", "http_error", "unauthorized", "malformed"})
    => /\ out.result = EmptyValue
       /\ Attempts = 1

\* C22 as amended: the same for every failure but a 401 of the plant list, and
\* for every failure of the plant details.
C22_NoRetryButReauth ==
    (last.op \in {"list_call", "details_call"}
        /\ arg.script[1] \in {"refused", "http_error", "unauthorized", "malformed"}
        /\ ~(last.op = "list_call" /\ arg.script[1] = "unauthorized"))
    => /\ out.result = EmptyValue
       /\ Attempts = 1
       /\ last.logins = 0

\* both calls have met an error status followed by an answer that would succeed
C22_Witness ==
    /\ last.op \in {"list_call", "details_call"}
    /\ arg.script[1] = "http_error"
    /\ arg.script[2] = "ok"
    /\ out.result = EmptyValue
    /\ arg.plants # << >>

\* C23: a connect event or a startup refresh that failed, through a login without
\* token, a failed list call or an exception that ended its pass, returns with
\* _plant_sensors holding the values and status texts it held before.
C23_FailedRefreshNoChange ==
    [][(last'.step = "op" /\ out'.failed) => EntitySet' = EntitySet]_vars

\* C24: handle_account_config logs in at most once before it fetches the plants,
\* and when that login fails it returns SetupError with _fyta_config and
\* config.json as they were before the call, and starts no pass.
C24_SetupLoginFailure ==
    [][(last'.op = "setup" /\ last'.step = "begin")
          => /\ last'.logins <= 1
             /\ (last'.logins = 1 /\ last'.done)
                => /\ last'.ret = "SetupError"
                   /\ UNCHANGED << fyta_config, config_file >>
                   /\ run' = NoRun
                   /\ last'.list_calls = 0]_vars

\* a setup whose login failed has returned while the session of an earlier setup
\* is in place
C24_Witness ==
    /\ last.op = "setup"
    /\ last.step = "begin"
    /\ last.logins = 1
    /\ last.ret = "SetupError"
    /\ fyta_config.present
    /\ config_file.present

\* C25: after an iteration of a pass that fetched the details of a plant with a
\* sensor, _plant_sensors holds the temperature and the moisture entity of the
\* plant, whichever pass it was; an iteration over a plant without a sensor adds
\* no entity.
C25_CreatedWhenObserved ==
    [][last'.step = "plant"
          => /\ (last'.plant.has_sensor /\ Fetches(last'.pass, last'.plant)
                    /\ last'.answer.kind = "ok")
                => /\ TempId(str_id(last'.plant)) \in DOMAIN plant_sensors'
                   /\ MoistId(str_id(last'.plant)) \in DOMAIN plant_sensors'
             /\ ~last'.plant.has_sensor
                => DOMAIN plant_sensors' = DOMAIN plant_sensors]_vars

\* the id of the entity of a kind for a plant, driver.py 79, 123 and 735-737
IdOf(kind, plant_id) ==
    IF kind = "temperature" THEN TempId(plant_id) ELSE MoistId(plant_id)

\* the keys of a dictionary of entities are the ids of its entities, each derived
\* from the kind and the plant id of the entity, and no two entities share both
WellKeyed(sensors) ==
    /\ \A key \in DOMAIN sensors :
          /\ sensors[key].id = key
          /\ sensors[key].id = IdOf(sensors[key].kind, sensors[key].plant_id)
    /\ \A a, b \in DOMAIN sensors :
          (sensors[a].kind = sensors[b].kind /\ sensors[a].plant_id = sensors[b].plant_id)
          => a = b

\* C26: in every state _plant_sensors, the available entities and entities.json
\* are keyed by ids derived from kind and plant id; the derivation is injective;
\* and the ids main rebuilds from the file are the ids the passes stored.
C26_StableIdentity ==
    /\ WellKeyed(plant_sensors)
    /\ WellKeyed(available)
    /\ WellKeyed(entities_file)
    /\ \A p, q \in PlantIds \cup {"None"} :
          /\ TempId(p) # MoistId(q)
          /\ p # q => TempId(p) # TempId(q) /\ MoistId(p) # MoistId(q)
    /\ last.op = "main" => DOMAIN plant_sensors = DOMAIN entities_file

\* main has rebuilt both entities of plant 1 from the file
C26_Witness ==
    /\ last.op = "main"
    /\ TempId("1") \in DOMAIN plant_sensors
    /\ MoistId("1") \in DOMAIN plant_sensors
    /\ plant_sensors[TempId("1")].plant_id = "1"

\* C27: when the update loop of a connect event has run over plants that have
\* entities, every entity holds the value and the status text that
\* create_plant_sensors derives from the same details.
C27_PathsAgree ==
    (last.op = "connect" /\ last.step = "pass" /\ last.pass = "update")
    => EntitySet = Shown(SinglePass.sensors)

\* C28: when a connect event or a startup refresh that changed a value or a status
\* text of _plant_sensors, or added an entity, has returned, entities.json holds
\* the entities of _plant_sensors with their kind, plant id and attributes.
C28_SnapshotFresh ==
    [][(last'.step = "op" /\ EntitySet' # EntitySet)
          => entities_file' = plant_sensors']_vars

\* C29: main rebuilds from entities.json, for every entity a pass has stored
\* there, an entity under the same id with the same kind, plant id and value, and
\* no other entity.
C29_RoundTrip ==
    [][last'.op = "main"
          => /\ DOMAIN plant_sensors' = DOMAIN entities_file
             /\ \A id \in DOMAIN entities_file :
                   /\ plant_sensors'[id].id = entities_file[id].id
                   /\ plant_sensors'[id].kind = entities_file[id].kind
                   /\ plant_sensors'[id].plant_id = entities_file[id].plant_id
                   /\ plant_sensors'[id].value = entities_file[id].value]_vars

\* main has rebuilt a moisture entity whose stored value is not the default of its
\* class, from a file that held what _plant_sensors held
C29_Witness ==
    /\ last.op = "main"
    /\ MoistId("1") \in DOMAIN entities_file
    /\ entities_file[MoistId("1")].value = "No Data"
    /\ plant_sensors[MoistId("1")].value = "No Data"
    /\ plant_sensors[TempId("1")].value = "21.5"

\* the arguments of the wait of the step taken last
WaitRetries == IF last.op = "wait" THEN arg.max_retries ELSE MAX_STARTUP_RETRIES
WaitDelay == IF last.op = "wait" THEN arg.delay ELSE RETRY_DELAY_SECONDS

\* C30: wait_for_network_connection probes at most max_retries times; it returns
\* True at the first probe that succeeds, having slept `delay` once before each
\* probe but the first; it returns False exactly when all max_retries probes
\* failed, having slept between them and not after the last; and a startup
\* refresh whose wait returned False logs in to nothing and starts no pass.
C30_WaitForNetwork ==
    (last.op = "wait" \/ (last.op = "startup" /\ last.step = "begin"))
    => /\ out.probes <= WaitRetries
       /\ out.result
          => /\ out.probes >= 1
             /\ arg.script[out.probes]
             /\ \A k \in 1..(out.probes - 1) : ~arg.script[k]
             /\ Len(out.sleeps) = out.probes - 1
       /\ out.result <=> \E k \in 1..WaitRetries : arg.script[k]
       /\ ~out.result
          => /\ out.probes = WaitRetries
             /\ Len(out.sleeps) = IF WaitRetries = 0 THEN 0 ELSE WaitRetries - 1
       /\ \A k \in 1..Len(out.sleeps) : out.sleeps[k] = WaitDelay
       /\ (last.op = "startup" /\ ~out.result)
          => /\ last.logins = 0
             /\ last.sent = << >>
             /\ last.list_calls = 0
             /\ run = NoRun
             /\ plant_sensors = EmptyDict
             /\ fyta_config = config_file

\* the startup refresh gave up after the probes had all failed
C30_Witness ==
    /\ last.op = "startup"
    /\ ~out.result
    /\ out.probes = MAX_STARTUP_RETRIES
    /\ Len(out.sleeps) = MAX_STARTUP_RETRIES - 1

\* C31: a UserDataResponse is processed as credentials only in step ACCOUNT_CONFIG,
\* which only a DriverSetupRequest enters; a UserDataResponse in step INIT and
\* every AbortDriverSetup return SetupError without a request or a login; an
\* abort leaves the step at INIT; and a UserDataResponse that directly follows a
\* completed setup returns SetupError without a login.
C31_SetupFlow ==
    [][/\ (last'.op = "setup" /\ last'.step = "begin") => setup_step = "ACCOUNT_CONFIG"
       /\ (setup_step' = "ACCOUNT_CONFIG" /\ setup_step # "ACCOUNT_CONFIG")
             => last'.op = "setup_request"
       /\ last'.op \in {"setup_data", "setup_abort"}
             => /\ last'.ret = "SetupError"
                /\ last'.sent = << >>
                /\ last'.logins = 0
       /\ last'.op = "setup_data" => setup_step = "INIT"
       /\ last'.op = "setup_abort" => setup_step' = "INIT"
       /\ (last.op = "setup" /\ last.ret = "SetupComplete")
             => ((last'.op = "setup" /\ last'.step = "begin")
                    => last'.ret = "SetupError" /\ last'.logins = 0)]_vars

\* whether _fyta_config held an access token when the call started
HadToken == fyta_config.present /\ fyta_config.access_token # NoToken

\* C32: a call of get_user_plants or get_plant_details that starts without a
\* session, or with a session whose access_token is null, sends no request, makes
\* no login and returns the empty value; a call that starts with a token sends
\* its first request with that token, every request it sends again with the token
\* the login before it stored, and none without a token.
C32_NoCallWithoutToken ==
    [][last'.step = "call"
          => /\ ~HadToken
                => /\ last'.sent = << >>
                   /\ last'.logins = 0
                   /\ out'.result = (IF last'.op = "list_call" THEN << >> ELSE NoDetails)
                   /\ UNCHANGED << fyta_config, config_file >>
             /\ HadToken
                => /\ Len(last'.sent) >= 1
                   /\ last'.sent[1].token = fyta_config.access_token
                   /\ last'.sent[Len(last'.sent)].token = fyta_config'.access_token
                   /\ \A i \in 1..Len(last'.sent) :
                         /\ last'.sent[i].token # NoToken
                         /\ i > 1 => /\ last'.sent[i - 1].rejected
                                     /\ last'.sent[i].token # last'.sent[i - 1].token]_vars

\* a details call that started with a session without access token has returned {}
C32_Witness ==
    /\ last.op = "details_call"
    /\ fyta_config = NullTokenConfig
    /\ arg.script[1] = "ok"
    /\ out.result = NoDetails
    /\ last.sent = << >>

====
